---- MODULE Spec2Model ----
(***************************************************************************)
(* Verification model of outlook-exporter-tui.                             *)
(*                                                                         *)
(* Several state machines share this module:                               *)
(*   SpecTracker  the DuplicateTracker object (core/duplicates.py)         *)
(*   SpecFilter   the filter predicates (filters/*.py, main.message_matches)*)
(*   Spec         one export run of main.process_messages over a file tree *)
(*   SpecPath     the path utilities (storage/path_utils.py)               *)
(*   SpecExporter the package's exporters (exporters/*.py)                 *)
(*   SpecIter     the batched enumeration (iterate_messages)               *)
(*   SpecTui      a run started from the TUI (tui/app.py)                  *)
(* Strings are sequences of one-character strings, so that lower(),        *)
(* substring search, suffix handling and sanitizing are computed.          *)
(***************************************************************************)
EXTENDS Integers, Sequences, FiniteSets, TLC

VARIABLES
    \* ---- DuplicateTracker (core/duplicates.py) ----
    dt_seen_hashes,   \* DuplicateTracker.seen_hashes: dict hash -> list of paths
    dt_log,           \* history: the register_file calls since construction/clear
    dt_last,          \* the last call made on the tracker and what it returned
    \* ---- filter predicates (filters/*.py, main.message_matches) ----
    f_call,           \* the predicate applied last, with its configuration
    f_email,          \* the email (message) it was applied to
    f_result,         \* what matches() returned
    \* ---- one export run (main.process_messages) ----
    cli_args,         \* the argparse namespace of the run
    status,           \* "running", "done" (returned) or "failed" (exception)
    in_msg,           \* inside the attachment loop of the current message
    cur_msg,          \* the message being processed
    idx,              \* 1-based index of the next attachment of cur_msg
    n_msgs,           \* messages taken from the folder so far
    n_atts,           \* attachments carried by those messages
    saved_attachments, \* paths save_attachment returned for cur_msg
    fs,               \* regular files under the output root: path -> content
    dirs,             \* directories under the output root
    seen_hashes,      \* process_messages' dict hash -> list of paths
    saved,            \* history: every file written and reported as saved
    saved_count,      \* process_messages' counter
    matched_messages, \* process_messages' counter
    \* ---- path utilities (storage/path_utils.py) ----
    p_call,           \* the path utility called last, with its arguments
    p_result,         \* what it returned
    \* ---- the package's exporters (exporters/*.py) ----
    px_config,        \* ExportConfig of the exporter
    px_result,        \* the ExportResult the exporter updates
    px_log,           \* history: the outcome of every item exported so far
    \* ---- the batched enumeration (iterate_messages) ----
    it_impl,          \* "main" (main.py) or "client" (outlook/client.py)
    it_total,         \* items.Count
    it_failing,       \* the indices whose items.Item(i) raises
    it_limit,         \* the limit argument (None when absent)
    it_batch_size,    \* the batch_size argument
    it_processed,     \* local variable processed
    it_end_index,     \* local variable end_index
    it_i,             \* the for loop's next index
    it_pc,            \* "while" (loop test), "for" (inside a batch), "done"
    it_attempted,     \* history: the indices whose access was attempted
    it_yielded,       \* history: the indices yielded to the consumer
    \* ---- a run started from the TUI (tui/app.py, main.run_export) ----
    tui_args,         \* the namespace get_args built (<<>> before the first run)
    tui_pc,           \* "idle", "no_args", "processing", "returned", "raised"
    tui_code,         \* what run_export returned (None while it has not)
    tui_missing,      \* the option whose read raised AttributeError ("" if none)
    tui_msgs          \* messages the run has taken from the folder

trackerVars == <<dt_seen_hashes, dt_log, dt_last>>
filterVars == <<f_call, f_email, f_result>>

exportVars == <<cli_args, status, in_msg, cur_msg, idx, n_msgs, n_atts,
                saved_attachments, fs, dirs, seen_hashes, saved, saved_count,
                matched_messages>>

pathVars == <<p_call, p_result>>
exporterVars == <<px_config, px_result, px_log>>
iterVars == <<it_impl, it_total, it_failing, it_limit, it_batch_size, it_processed,
              it_end_index, it_i, it_pc, it_attempted, it_yielded>>

tuiVars == <<tui_args, tui_pc, tui_code, tui_missing, tui_msgs>>

vars == <<trackerVars, filterVars, exportVars, pathVars, exporterVars, iterVars,
          tuiVars>>

(***************************************************************************)
(* Bounds                                                                  *)
(***************************************************************************)
MaxRegistrations == 3
MaxStrLen == 2        \* longest subject, body, sender or keyword
MaxKeywords == 2      \* longest keyword list / sender allow-list
MaxFilters == 2       \* longest CompositeFilter component list
Days == 2             \* calendar days in the modelled period
TicksPerDay == 2      \* distinct times of day per calendar day
MaxMessages == 2      \* messages in the folder of one export run
MaxAttachments == 2   \* attachments carried by all messages of one run
MaxSanitizeLen == 4   \* longest string given to sanitize_for_filesystem
MaxBaseSteps == 3     \* base directory lengths tried, in steps of 30 characters
MaxSiblings == 2      \* numbered siblings f_1.e .. a directory may hold
MaxItems == 3         \* items one exporter of the package is given
MaxTotal == 3         \* messages in the enumerated folder
MaxBatchSize == 2     \* largest batch_size argument
MaxLimit == 2         \* largest limit argument

(***************************************************************************)
(* Program constants                                                       *)
(***************************************************************************)
PathLimit == 200          \* longest target directory string kept as is
SenderMax == 120          \* sanitize length of the sender component
ShortSubjectMax == 50     \* sanitize length of the shortened subject
FileNameMax == 255        \* sanitize length of a file name
FallbackMax == 100        \* sanitize length of the flat fallback folder
SubjectSanitizeLength == 80   \* --subject-sanitize-length default
OlByValue == 5            \* attachment Type treated as possibly inline
BaseDirLen == 1           \* len(str(args.output)) of the run

(***************************************************************************)
(* Generic helpers                                                         *)
(***************************************************************************)
\* None in place of an optional datetime or date (times are naturals)
None == -1

\* an optional list: None, or Some(list)
NoneList == [some |-> FALSE, v |-> <<>>]
Some(l) == [some |-> TRUE, v |-> l]

\* the empty dict
EmptyDict == [k \in {} |-> <<>>]

\* dict with key k set to v (Python d[k] = v)
DictSet(d, k, v) == [x \in (DOMAIN d) \cup {k} |-> IF x = k THEN v ELSE d[x]]

RECURSIVE SumLens(_, _)
\* sum(len(paths) for paths in d.values()) over the keys in ks
SumLens(d, ks) ==
    IF ks = {} THEN 0
    ELSE LET k == CHOOSE x \in ks : TRUE
         IN  Len(d[k]) + SumLens(d, ks \ {k})

(***************************************************************************)
(* DuplicateTracker                                                        *)
(***************************************************************************)
TrackerHashes == {"h1", "h2"}
TrackerPaths  == {"p1", "p2", "p3"}

\* DuplicateTracker.is_duplicate
is_duplicate(seen, file_hash) == file_hash \in DOMAIN seen

\* a slip that replaces the list instead of appending to it
register_file_overwrite(seen, file_path, file_hash) ==
    DictSet(seen, file_hash, <<file_path>>)

\* DuplicateTracker.register_file
register_file(seen, file_path, file_hash) ==
    LET seen1 == IF file_hash \notin DOMAIN seen
                 THEN DictSet(seen, file_hash, <<>>)
                 ELSE seen
    IN  DictSet(seen1, file_hash, Append(seen1[file_hash], file_path))

\* DuplicateTracker.get_original_locations
get_original_locations(seen, file_hash) ==
    IF file_hash \in DOMAIN seen THEN seen[file_hash] ELSE <<>>

\* a slip that counts keys instead of summing the list lengths
get_statistics_nosum(seen) ==
    LET unique_files == Cardinality(DOMAIN seen)
        total_files  == Cardinality(DOMAIN seen)
    IN  [unique_files |-> unique_files, total_files |-> total_files,
         duplicate_files |-> total_files - unique_files]

\* DuplicateTracker.get_statistics
get_statistics(seen) ==
    LET unique_files == Cardinality(DOMAIN seen)
        total_files  == SumLens(seen, DOMAIN seen)
    IN  [unique_files |-> unique_files, total_files |-> total_files,
         duplicate_files |-> total_files - unique_files]

InitTrackerVars ==
    /\ dt_seen_hashes = EmptyDict
    /\ dt_log = <<>>
    /\ dt_last = [op |-> "init"]

TrackerRegisterFile ==
    /\ UNCHANGED <<filterVars, exportVars, pathVars, exporterVars, iterVars, tuiVars>>
    /\ Len(dt_log) < MaxRegistrations
    /\ \E p \in TrackerPaths, h \in TrackerHashes :
         /\ dt_seen_hashes' = register_file(dt_seen_hashes, p, h)
         /\ dt_log' = Append(dt_log, [path |-> p, hash |-> h])
         /\ dt_last' = [op |-> "register_file", hash |-> h, path |-> p]

TrackerIsDuplicate ==
    /\ UNCHANGED <<filterVars, exportVars, pathVars, exporterVars, iterVars, tuiVars>>
    /\ \E h \in TrackerHashes :
         dt_last' = [op |-> "is_duplicate", hash |-> h,
                     result |-> is_duplicate(dt_seen_hashes, h)]
    /\ UNCHANGED <<dt_seen_hashes, dt_log>>

TrackerGetOriginalLocations ==
    /\ UNCHANGED <<filterVars, exportVars, pathVars, exporterVars, iterVars, tuiVars>>
    /\ \E h \in TrackerHashes :
         dt_last' = [op |-> "get_original_locations", hash |-> h,
                     result |-> get_original_locations(dt_seen_hashes, h)]
    /\ UNCHANGED <<dt_seen_hashes, dt_log>>

TrackerGetStatistics ==
    /\ UNCHANGED <<filterVars, exportVars, pathVars, exporterVars, iterVars, tuiVars>>
    /\ dt_last' = [op |-> "get_statistics",
                   result |-> get_statistics(dt_seen_hashes)]
    /\ UNCHANGED <<dt_seen_hashes, dt_log>>

\* DuplicateTracker.clear; the history restarts with the emptied registry
TrackerClear ==
    /\ UNCHANGED <<filterVars, exportVars, pathVars, exporterVars, iterVars, tuiVars>>
    /\ dt_seen_hashes' = EmptyDict
    /\ dt_log' = <<>>
    /\ dt_last' = [op |-> "clear"]

(***************************************************************************)
(* Strings                                                                 *)
(***************************************************************************)
Alphabet == {"a", "A", "b"}

\* all sequences over S of length at most n
SeqsUpTo(S, n) == UNION {[1..k -> S] : k \in 0..n}

Str == SeqsUpTo(Alphabet, MaxStrLen)

\* str.lower() on one character
LowerChar(c) == IF c = "A" THEN "a" ELSE c

\* str.lower()
Lower(s) == [i \in 1..Len(s) |-> LowerChar(s[i])]

\* Python "kw in s" on strings: kw occurs as a contiguous substring of s
Contains(kw, s) ==
    \E i \in 0..(Len(s) - Len(kw)) : SubSeq(s, i + 1, i + Len(kw)) = kw

\* Python "x in list"
InList(x, l) == \E i \in 1..Len(l) : l[i] = x

(***************************************************************************)
(* Times: a datetime is a tick count, TicksPerDay ticks per calendar day.  *)
(* An ISO date string "YYYY-MM-DD" is the index of its calendar day.       *)
(***************************************************************************)
Times == 0..(Days * TicksPerDay - 1)
IsoDates == 0..(Days - 1)

\* the calendar day a datetime falls on
DayOf(t) == t \div TicksPerDay

\* main.parse_date: strptime(date_str, "%Y-%m-%d") is midnight of that day
parse_date(date_str) ==
    IF date_str = None THEN None ELSE date_str * TicksPerDay

(***************************************************************************)
(* Filters (filters/base.py, filters/email_filters.py)                     *)
(***************************************************************************)
\* DateRangeFilter.__init__
DateRangeFilter(start_date, end_date) ==
    [kind |-> "DateRange", start_date |-> start_date, end_date |-> end_date]

\* SenderFilter.__init__ lower-cases the allow-list
SenderFilter(senders) ==
    [kind |-> "Sender", senders |-> [i \in 1..Len(senders) |-> Lower(senders[i])]]

\* SubjectKeywordFilter.__init__ lower-cases the keywords
SubjectKeywordFilter(keywords) ==
    [kind |-> "SubjectKeyword",
     keywords |-> [i \in 1..Len(keywords) |-> Lower(keywords[i])]]

\* BodyKeywordFilter.__init__ lower-cases the keywords
BodyKeywordFilter(keywords) ==
    [kind |-> "BodyKeyword",
     keywords |-> [i \in 1..Len(keywords) |-> Lower(keywords[i])]]

\* AttachmentPresenceFilter.__init__
AttachmentPresenceFilter(requires_attachments) ==
    [kind |-> "AttachmentPresence", requires_attachments |-> requires_attachments]

\* PassThroughFilter
PassThroughFilter == [kind |-> "PassThrough"]

\* a slip that makes the start bound exclusive
DateRangeFilter_matches_strict(self, email) ==
    IF self.start_date # None /\ email.received_time <= self.start_date THEN FALSE
    ELSE IF self.end_date # None /\ email.received_time > self.end_date THEN FALSE
    ELSE TRUE

\* DateRangeFilter.matches
DateRangeFilter_matches(self, email) ==
    IF self.start_date # None /\ email.received_time < self.start_date THEN FALSE
    ELSE IF self.end_date # None /\ email.received_time > self.end_date THEN FALSE
    ELSE TRUE

\* SenderFilter.matches
SenderFilter_matches(self, email) ==
    InList(Lower(email.sender_email), self.senders)

\* all(kw in text_lower for kw in keywords)
AllKeywordsIn(keywords, text_lower) ==
    \A i \in 1..Len(keywords) : Contains(keywords[i], text_lower)

\* a slip that accepts when any keyword is present (OR instead of AND)
SubjectKeywordFilter_matches_any(self, email) ==
    LET subject_lower == Lower(email.subject)
    IN  \E i \in 1..Len(self.keywords) : Contains(self.keywords[i], subject_lower)

\* SubjectKeywordFilter.matches
SubjectKeywordFilter_matches(self, email) ==
    LET subject_lower == Lower(email.subject)
    IN  AllKeywordsIn(self.keywords, subject_lower)

\* BodyKeywordFilter.matches
BodyKeywordFilter_matches(self, email) ==
    LET body_lower == Lower(email.body)
    IN  AllKeywordsIn(self.keywords, body_lower)

\* AttachmentPresenceFilter.matches: always True
AttachmentPresenceFilter_matches(self, email) == TRUE

\* EmailFilter.matches, dispatched on the concrete filter class
matches(self, email) ==
    CASE self.kind = "DateRange"          -> DateRangeFilter_matches(self, email)
      [] self.kind = "Sender"             -> SenderFilter_matches(self, email)
      [] self.kind = "SubjectKeyword"     -> SubjectKeywordFilter_matches(self, email)
      [] self.kind = "BodyKeyword"        -> BodyKeywordFilter_matches(self, email)
      [] self.kind = "AttachmentPresence" -> AttachmentPresenceFilter_matches(self, email)
      [] self.kind = "PassThrough"        -> TRUE

RECURSIVE AllFrom(_, _, _)
\* all(filter.matches(email) for filter in filters[i:]), left to right,
\* stopping at the first filter that does not match
AllFrom(filters, email, i) ==
    IF i > Len(filters) THEN TRUE
    ELSE IF ~matches(filters[i], email) THEN FALSE
    ELSE AllFrom(filters, email, i + 1)

\* a slip that never evaluates the last component
CompositeFilter_matches_droplast(filters, email) ==
    AllFrom(SubSeq(filters, 1, Len(filters) - 1), email, 1)

\* CompositeFilter.matches
CompositeFilter_matches(filters, email) == AllFrom(filters, email, 1)

(***************************************************************************)
(* main.message_matches                                                    *)
(***************************************************************************)
\* Python truthiness of an optional list (None and [] are falsy)
Truthy(l) == l.some /\ l.v # <<>>

\* any(sender_email.lower() == s.lower() for s in senders)
AnySenderEquals(sender_email, senders) ==
    \E i \in 1..Len(senders) : Lower(sender_email) = Lower(senders[i])

\* all(kw.lower() in text.lower() for kw in keywords)
AllKeywordsLowerIn(keywords, text) ==
    \A i \in 1..Len(keywords) : Contains(Lower(keywords[i]), Lower(text))

\* a slip that tests the attachment switches the wrong way round
message_matches_swapped(message, args) ==
    LET start == parse_date(args.start_date)
        end   == parse_date(args.end_date)
        has_attachments == message.attachments > 0
    IN  IF start # None /\ message.received_time < start THEN FALSE
        ELSE IF end # None /\ message.received_time > end THEN FALSE
        ELSE IF Truthy(args.sender)
                /\ ~AnySenderEquals(message.sender_email, args.sender.v) THEN FALSE
        ELSE IF Truthy(args.subject_keyword)
                /\ ~AllKeywordsLowerIn(args.subject_keyword.v, message.subject) THEN FALSE
        ELSE IF Truthy(args.body_keyword)
                /\ ~AllKeywordsLowerIn(args.body_keyword.v, message.body) THEN FALSE
        ELSE IF args.with_attachments /\ has_attachments THEN FALSE
        ELSE IF args.without_attachments /\ ~has_attachments THEN FALSE
        ELSE TRUE

\* main.message_matches
message_matches(message, args) ==
    LET start == parse_date(args.start_date)
        end   == parse_date(args.end_date)
        has_attachments == message.attachments > 0
    IN  IF start # None /\ message.received_time < start THEN FALSE
        ELSE IF end # None /\ message.received_time > end THEN FALSE
        ELSE IF Truthy(args.sender)
                /\ ~AnySenderEquals(message.sender_email, args.sender.v) THEN FALSE
        ELSE IF Truthy(args.subject_keyword)
                /\ ~AllKeywordsLowerIn(args.subject_keyword.v, message.subject) THEN FALSE
        ELSE IF Truthy(args.body_keyword)
                /\ ~AllKeywordsLowerIn(args.body_keyword.v, message.body) THEN FALSE
        ELSE IF args.with_attachments /\ ~has_attachments THEN FALSE
        ELSE IF args.without_attachments /\ has_attachments THEN FALSE
        ELSE TRUE

(***************************************************************************)
(* Inputs of the filter state machine                                      *)
(***************************************************************************)
OptTimes == Times \cup {None}
OptIsoDates == IsoDates \cup {None}

\* attachment counts of a message
AttachmentCounts == {0, 1, 2}

\* an email that no field distinguishes
BaseEmail ==
    [subject |-> <<>>, body |-> <<>>, sender_email |-> <<>>,
     received_time |-> 0, attachments |-> 0]

\* emails that differ in every field a predicate reads
EmailSample ==
    [subject : {<<"A", "b">>, <<"b">>}, body : {<<"a">>, <<>>},
     sender_email : {<<"A">>, <<"b">>}, received_time : Times,
     attachments : AttachmentCounts]

\* component filters a CompositeFilter is built from
ComponentFilters ==
    {DateRangeFilter(1, None), SenderFilter(<< <<"A">> >>), SenderFilter(<<>>),
     SubjectKeywordFilter(<< <<"b">> >>), BodyKeywordFilter(<< <<"a">> >>),
     AttachmentPresenceFilter(TRUE), PassThroughFilter}

\* values of a repeatable command-line option (None when never given)
SenderArgs == {NoneList, Some(<< <<"A">> >>), Some(<< <<"b">>, <<"a">> >>)}
KeywordArgs == {NoneList, Some(<< <<"A">> >>), Some(<< <<"a">>, <<"b">> >>)}

\* argparse namespaces, as far as message_matches reads them
ArgsSample ==
    {a \in [start_date : OptIsoDates, end_date : OptIsoDates,
            sender : SenderArgs, subject_keyword : KeywordArgs,
            body_keyword : KeywordArgs,
            with_attachments : BOOLEAN, without_attachments : BOOLEAN] :
        ~(a.with_attachments /\ a.without_attachments)}

\* each behaviour applies one predicate to one drawn input
InitFilterVars ==
    /\ f_call = [op |-> "init"]
    /\ f_email = BaseEmail
    /\ f_result = TRUE

ApplyDateRangeFilter ==
    /\ f_call.op = "init"
    /\ UNCHANGED <<trackerVars, exportVars, pathVars, exporterVars, iterVars, tuiVars>>
    /\ \E s \in OptTimes, e \in OptTimes, t \in Times :
         LET email == [BaseEmail EXCEPT !.received_time = t]
         IN  /\ f_call' = [op |-> "DateRangeFilter", start_date |-> s, end_date |-> e]
             /\ f_email' = email
             /\ f_result' = matches(DateRangeFilter(s, e), email)

ApplySenderFilter ==
    /\ f_call.op = "init"
    /\ UNCHANGED <<trackerVars, exportVars, pathVars, exporterVars, iterVars, tuiVars>>
    /\ \E senders \in SeqsUpTo(Str, MaxKeywords), sender \in Str :
         LET email == [BaseEmail EXCEPT !.sender_email = sender]
         IN  /\ f_call' = [op |-> "SenderFilter", senders |-> senders]
             /\ f_email' = email
             /\ f_result' = matches(SenderFilter(senders), email)

ApplySubjectKeywordFilter ==
    /\ f_call.op = "init"
    /\ UNCHANGED <<trackerVars, exportVars, pathVars, exporterVars, iterVars, tuiVars>>
    /\ \E keywords \in SeqsUpTo(Str, MaxKeywords), subject \in Str :
         LET email == [BaseEmail EXCEPT !.subject = subject]
         IN  /\ f_call' = [op |-> "SubjectKeywordFilter", keywords |-> keywords]
             /\ f_email' = email
             /\ f_result' = matches(SubjectKeywordFilter(keywords), email)

ApplyBodyKeywordFilter ==
    /\ f_call.op = "init"
    /\ UNCHANGED <<trackerVars, exportVars, pathVars, exporterVars, iterVars, tuiVars>>
    /\ \E keywords \in SeqsUpTo(Str, MaxKeywords), body \in Str :
         LET email == [BaseEmail EXCEPT !.body = body]
         IN  /\ f_call' = [op |-> "BodyKeywordFilter", keywords |-> keywords]
             /\ f_email' = email
             /\ f_result' = matches(BodyKeywordFilter(keywords), email)

ApplyAttachmentPresenceFilter ==
    /\ f_call.op = "init"
    /\ UNCHANGED <<trackerVars, exportVars, pathVars, exporterVars, iterVars, tuiVars>>
    /\ \E requires_attachments \in BOOLEAN, email \in EmailSample :
         /\ f_call' = [op |-> "AttachmentPresenceFilter",
                       requires_attachments |-> requires_attachments]
         /\ f_email' = email
         /\ f_result' = matches(AttachmentPresenceFilter(requires_attachments), email)

ApplyPassThroughFilter ==
    /\ f_call.op = "init"
    /\ UNCHANGED <<trackerVars, exportVars, pathVars, exporterVars, iterVars, tuiVars>>
    /\ \E email \in EmailSample :
         /\ f_call' = [op |-> "PassThroughFilter"]
         /\ f_email' = email
         /\ f_result' = matches(PassThroughFilter, email)

ApplyCompositeFilter ==
    /\ f_call.op = "init"
    /\ UNCHANGED <<trackerVars, exportVars, pathVars, exporterVars, iterVars, tuiVars>>
    /\ \E filters \in SeqsUpTo(ComponentFilters, MaxFilters), email \in EmailSample :
         /\ f_call' = [op |-> "CompositeFilter", filters |-> filters]
         /\ f_email' = email
         /\ f_result' = CompositeFilter_matches(filters, email)

ApplyMessageMatches ==
    /\ f_call.op = "init"
    /\ UNCHANGED <<trackerVars, exportVars, pathVars, exporterVars, iterVars, tuiVars>>
    /\ \E args \in ArgsSample, message \in EmailSample :
         /\ f_call' = [op |-> "message_matches", args |-> args]
         /\ f_email' = message
         /\ f_result' = message_matches(message, args)

(***************************************************************************)
(* String and path helpers of the export run (main.py, pathlib)            *)
(***************************************************************************)
DigitChars == <<"0", "1", "2", "3", "4", "5", "6", "7", "8", "9">>

RECURSIVE IntToStr(_)
\* str(n) for a natural number (the f-string formatting of counter)
IntToStr(n) ==
    IF n < 10 THEN <<DigitChars[n + 1]>>
    ELSE IntToStr(n \div 10) \o <<DigitChars[(n % 10) + 1]>>

\* characters str.strip() removes (space and tab stand for all whitespace)
Whitespace == {" ", "\t"}

\* the characters re.sub(r"[\\/:*?\"<>|]", "_", value) replaces
InvalidChars == {"\\", "/", ":", "*", "?", "\"", "<", ">", "|"}

RECURSIVE RStrip(_, _)
\* str.rstrip(chars)
RStrip(s, chars) ==
    IF s # <<>> /\ s[Len(s)] \in chars THEN RStrip(SubSeq(s, 1, Len(s) - 1), chars)
    ELSE s

RECURSIVE LStrip(_, _)
\* str.lstrip(chars)
LStrip(s, chars) ==
    IF s # <<>> /\ s[1] \in chars THEN LStrip(Tail(s), chars) ELSE s

\* str.strip()
Strip(s) == RStrip(LStrip(s, Whitespace), Whitespace)

\* re.sub(r"[\\/:*?\"<>|]", "_", value)
ReplaceInvalid(value) ==
    [i \in 1..Len(value) |-> IF value[i] \in InvalidChars THEN "_" ELSE value[i]]

\* value[:max_length].rstrip('_. ') when value is longer than max_length
Truncate(value, max_length) ==
    IF Len(value) > max_length
    THEN RStrip(SubSeq(value, 1, max_length), {"_", ".", " "})
    ELSE value

\* if not value: value = "_"
EnsureNotEmpty(value) == IF value = <<>> THEN <<"_">> ELSE value

\* main.sanitize_for_fs
sanitize_for_fs(value, max_length) ==
    EnsureNotEmpty(Truncate(RStrip(ReplaceInvalid(Strip(value)), {".", " "}), max_length))

\* str.rfind("."), 1-based, 0 when there is no dot
LastDot(name) ==
    IF \E i \in 1..Len(name) : name[i] = "."
    THEN CHOOSE i \in 1..Len(name) :
             /\ name[i] = "."
             /\ \A j \in (i + 1)..Len(name) : name[j] # "."
    ELSE 0

\* PurePath.suffix of a file name
Suffix(name) ==
    LET i == LastDot(name)
    IN  IF 1 < i /\ i < Len(name) THEN SubSeq(name, i, Len(name)) ELSE <<>>

\* PurePath.stem of a file name
Stem(name) == SubSeq(name, 1, Len(name) - Len(Suffix(name)))

\* a path is the sequence of its components under the output directory
Parent(path) == SubSeq(path, 1, Len(path) - 1)
Name(path) == path[Len(path)]

\* PurePath.with_name
with_name(path, name) == Parent(path) \o <<name>>

\* PurePath.with_suffix
with_suffix(path, suffix) == with_name(path, Stem(Name(path)) \o suffix)

RECURSIVE PathChars(_)
\* number of characters of the components of a path
PathChars(path) ==
    IF path = <<>> THEN 0 ELSE Len(Head(path)) + PathChars(Tail(path))

\* len(str(base_dir / ...)): the base directory, then a separator and the
\* component for every component
StrLen(path) == BaseDirLen + Len(path) + PathChars(path)

\* Path.mkdir(parents=True): the directory and all its ancestors
WithParents(dir) == {SubSeq(dir, 1, k) : k \in 1..Len(dir)}

DotTmp == <<".", "t", "m", "p">>
DotMsg == <<".", "m", "s", "g">>
DotMd  == <<".", "m", "d">>

(***************************************************************************)
(* The export run (main.process_messages and the functions it calls)       *)
(***************************************************************************)
\* the value of a path-returning function that returned None
NoPath == <<>>

HexChars == <<"0", "1", "2", "3", "4", "5", "6", "7", "8", "9",
              "a", "b", "c", "d", "e", "f">>

\* hashlib.md5(subject.encode("utf-8")).hexdigest()[:8]: eight hex digits
\* that depend on the subject only (the digest itself is not computed)
Md5Hex8(subject) == [i \in 1..8 |-> HexChars[((Len(subject) + i) % 16) + 1]]

\* compute_hash: the digest of the bytes of a file; distinct contents have
\* distinct digests (the digest is taken to be collision-free)
compute_hash(files, path) == <<"digest", files[path].kind, files[path].id>>

\* received.strftime("%Y-%m-%d"): one folder name per calendar day
DateFolder(received) == <<"D">> \o IntToStr(DayOf(received))

\* x or default
OrDefault(x, default) == IF x = <<>> THEN default ELSE x

Unknown == <<"u", "n", "k", "n", "o", "w", "n">>
NoSubject == <<"N", "o", " ", "S", "u", "b", "j", "e", "c", "t">>
AttachmentBin == <<"a", "t", "t", "a", "c", "h", "m", "e", "n", "t", ".", "b", "i", "n">>

\* Path.exists
Exists(S, path) == path \in DOMAIN S.fs \/ path \in S.dirs

\* the file tree after writing content at path (an existing file is replaced)
WriteFile(files, path, content) ==
    [p \in (DOMAIN files) \cup {path} |-> IF p = path THEN content ELSE files[p]]

\* Path.rename(target) onto a path that does not exist
Rename(files, source, target) ==
    [p \in ((DOMAIN files) \ {source}) \cup {target} |->
        IF p = target THEN files[source] ELSE files[p]]

\* the shortening ladder of save_attachment: the full folder, else the one
\* with the 50-character subject, else the one named after the subject hash
Ladder(dir0, dir1, dir2) ==
    IF StrLen(dir0) > PathLimit
    THEN IF StrLen(dir1) > PathLimit THEN dir2 ELSE dir1
    ELSE dir0

\* base_dir / sender / subject / date_folder for the three subject forms
LadderDirs(sender, date_folder, subject_raw, args) ==
    Ladder(<<sender, sanitize_for_fs(subject_raw, args.subject_sanitize_length), date_folder>>,
           <<sender, sanitize_for_fs(subject_raw, ShortSubjectMax), date_folder>>,
           <<sender, <<"s", "u", "b", "j", "_">> \o Md5Hex8(subject_raw), date_folder>>)

\* save_attachment: the target directory of the attachments of a message
AttachmentTargetDir(message, args) ==
    LadderDirs(sanitize_for_fs(OrDefault(message.sender_email, Unknown), SenderMax),
               DateFolder(message.received_time), message.subject, args)

RECURSIVE DuplicateDest(_, _, _, _)
\* the loop "while dup_dest.exists()" of the duplicate branch: every pass
\* appends _counter to the stem of the current candidate
DuplicateDest(S, duplicates_dir, name, counter) ==
    IF Exists(S, duplicates_dir \o <<name>>)
    THEN DuplicateDest(S, duplicates_dir,
                       Stem(name) \o <<"_">> \o IntToStr(counter) \o Suffix(name),
                       counter + 1)
    ELSE duplicates_dir \o <<name>>

RECURSIVE UniqueDest(_, _, _, _)
\* the loop "while final_path.exists()" of the unique branch: every pass
\* appends _counter to the stem of dest_path
UniqueDest(S, dest_path, final_path, counter) ==
    IF Exists(S, final_path)
    THEN UniqueDest(S, dest_path,
                    with_name(dest_path, Stem(Name(dest_path)) \o <<"_">>
                                  \o IntToStr(counter) \o Suffix(Name(dest_path))),
                    counter + 1)
    ELSE final_path

\* a slip that forgets to record the hash of a new file
register_unique_forget(seen, file_hash, final_path) == seen

\* seen_hashes[file_hash] = [final_path]
register_unique(seen, file_hash, final_path) == DictSet(seen, file_hash, <<final_path>>)

\* seen_hashes[file_hash].append(dup_dest)
register_duplicate(seen, file_hash, dup_dest) ==
    DictSet(seen, file_hash, Append(seen[file_hash], dup_dest))

\* what one call of save_attachment did: the new tree, the returned path
\* (NoPath for None), whether a file was written, the branch taken and
\* whether an exception left the function
AttachmentResult(files, ds, seen, ret, written, duplicate, raised, target_dir, filename) ==
    [fs |-> files, dirs |-> ds, seen_hashes |-> seen, ret |-> ret,
     written |-> written, duplicate |-> duplicate, raised |-> raised,
     target_dir |-> target_dir, filename |-> filename]

\* save_attachment, duplicate branch: temp_path.rename(dup_dest)
move_duplicate(S, fs1, ds, temp_path, file_hash, target_dir, filename, dup_dest) ==
    AttachmentResult(Rename(fs1, temp_path, dup_dest), ds,
                     register_duplicate(S.seen_hashes, file_hash, dup_dest),
                     dup_dest, TRUE, TRUE, FALSE, target_dir, filename)

\* save_attachment, duplicate branch: mkdir and the search for dup_dest
save_duplicate(S, fs1, ds, temp_path, file_hash, target_dir, filename, duplicates_dir) ==
    IF duplicates_dir \in DOMAIN fs1
    THEN \* mkdir(exist_ok=True) on a regular file: FileExistsError
         AttachmentResult(fs1, ds, S.seen_hashes, NoPath, FALSE, TRUE, TRUE,
                          target_dir, filename)
    ELSE move_duplicate(S, fs1, ds \cup {duplicates_dir}, temp_path, file_hash,
                        target_dir, filename,
                        DuplicateDest([fs |-> fs1, dirs |-> ds \cup {duplicates_dir}],
                                      duplicates_dir, filename, 1))

\* save_attachment, unique branch: temp_path.rename(final_path)
move_unique(S, fs1, ds, temp_path, file_hash, target_dir, filename, final_path) ==
    AttachmentResult(Rename(fs1, temp_path, final_path), ds,
                     register_unique(S.seen_hashes, file_hash, final_path),
                     final_path, TRUE, FALSE, FALSE, target_dir, filename)

\* save_attachment from "duplicate = file_hash in seen_hashes" on
classify(S, fs1, ds, temp_path, file_hash, target_dir, filename, args) ==
    IF file_hash \in DOMAIN S.seen_hashes
    THEN save_duplicate(S, fs1, ds, temp_path, file_hash, target_dir, filename,
                        target_dir \o <<args.duplicates_subfolder>>)
    ELSE move_unique(S, fs1, ds, temp_path, file_hash, target_dir, filename,
                     UniqueDest([fs |-> fs1, dirs |-> ds], target_dir \o <<filename>>,
                                target_dir \o <<filename>>, 1))

\* save_attachment: file_hash = compute_hash(temp_path, ...)
\* (hash_fails: the temp file cannot be read, compute_hash raises and the
\* exception leaves save_attachment)
hash_temp(S, fs1, ds, temp_path, hash_fails, target_dir, filename, args) ==
    IF hash_fails
    THEN AttachmentResult(fs1, ds, S.seen_hashes, NoPath, FALSE, FALSE, TRUE,
                          target_dir, filename)
    ELSE classify(S, fs1, ds, temp_path, compute_hash(fs1, temp_path), target_dir,
                  filename, args)

\* save_attachment: attachment.SaveAsFile(temp_path), None when it raises
save_temp(S, ds, temp_path, attachment, target_dir, filename, args) ==
    IF attachment.save_fails
    THEN AttachmentResult(S.fs, ds, S.seen_hashes, NoPath, FALSE, FALSE, FALSE,
                          target_dir, filename)
    ELSE hash_temp(S, WriteFile(S.fs, temp_path, [kind |-> "att", id |-> attachment.content]),
                   ds, temp_path, attachment.hash_fails, target_dir, filename, args)

\* save_attachment once target_dir and filename are known
save_attachment_to(S, attachment, args, target_dir, filename) ==
    IF args.dry_run
    THEN AttachmentResult(S.fs, S.dirs \cup WithParents(target_dir), S.seen_hashes,
                          target_dir \o <<filename>>, FALSE, FALSE, FALSE,
                          target_dir, filename)
    ELSE save_temp(S, S.dirs \cup WithParents(target_dir),
                   with_suffix(target_dir \o <<filename>>, Suffix(filename) \o DotTmp),
                   attachment, target_dir, filename, args)

\* main.save_attachment on the file tree S = [fs, dirs, seen_hashes]
save_attachment(S, message, attachment, args) ==
    IF ~args.include_inline /\ attachment.Position = 0 /\ attachment.Type = OlByValue
    THEN AttachmentResult(S.fs, S.dirs, S.seen_hashes, NoPath, FALSE, FALSE, FALSE,
                          <<>>, <<>>)
    ELSE save_attachment_to(S, attachment, args, AttachmentTargetDir(message, args),
                            sanitize_for_fs(OrDefault(attachment.FileName, AttachmentBin),
                                            FileNameMax))

\* save_mail and save_markdown once dest_path is known: mkdir, then the
\* write unless --dry-run; ok says whether the write succeeded
write_message(S, args, ok, dest_path, content) ==
    IF args.dry_run
    THEN [fs |-> S.fs, dirs |-> S.dirs \cup WithParents(Parent(dest_path)),
          ret |-> dest_path, written |-> FALSE]
    ELSE IF ok
    THEN [fs |-> WriteFile(S.fs, dest_path, content),
          dirs |-> S.dirs \cup WithParents(Parent(dest_path)),
          ret |-> dest_path, written |-> TRUE]
    ELSE [fs |-> S.fs, dirs |-> S.dirs \cup WithParents(Parent(dest_path)),
          ret |-> NoPath, written |-> FALSE]

\* target_dir / (sanitize_for_fs(subject, 255) + extension)
MessageFile(sender, subject, date_folder, extension) ==
    <<sender, subject, date_folder, sanitize_for_fs(subject, FileNameMax) \o extension>>

\* main.save_mail; ok says whether message.SaveAs succeeded
save_mail(S, message, args, ok) ==
    write_message(S, args, ok,
        MessageFile(sanitize_for_fs(OrDefault(message.sender_email, Unknown), SenderMax),
                    sanitize_for_fs(message.subject, args.subject_sanitize_length),
                    DateFolder(message.received_time), DotMsg),
        [kind |-> "msg", id |-> message.id])

RECURSIVE CommonLen(_, _)
\* the number of leading components two paths share
CommonLen(path, start) ==
    IF path = <<>> \/ start = <<>> \/ Head(path) # Head(start) THEN 0
    ELSE 1 + CommonLen(Tail(path), Tail(start))

\* os.path.relpath(path, start): as many ".." as start has components below
\* the common ancestor (common of them are shared), then the rest of path
relpath(path, start, common) ==
    [up |-> Len(start) - common, down |-> SubSeq(path, common + 1, Len(path))]

\* save_markdown, the attachments section: a link to the relative path when
\* attachment_path.stat() succeeds, else the bare name
AttachmentsSection(files, saved_paths, start) ==
    [i \in 1..Len(saved_paths) |->
        [name |-> Name(saved_paths[i]),
         linked |-> saved_paths[i] \in DOMAIN files,
         rel |-> relpath(saved_paths[i], start, CommonLen(saved_paths[i], start))]]

\* save_markdown once dest_path is known
save_markdown_to(S, message, args, saved_paths, ok, dest_path) ==
    write_message(S, args, ok, dest_path,
        [kind |-> "md", id |-> message.id,
         attachments |-> AttachmentsSection(S.fs, saved_paths, Parent(dest_path))])

\* main.save_markdown; ok says whether writing the file succeeded
save_markdown(S, message, args, saved_paths, ok) ==
    save_markdown_to(S, message, args, saved_paths, ok,
        MessageFile(sanitize_for_fs(OrDefault(message.sender_email, Unknown), SenderMax),
                    sanitize_for_fs(OrDefault(message.subject, NoSubject),
                                    args.subject_sanitize_length),
                    DateFolder(message.received_time), DotMd))

(***************************************************************************)
(* Inputs and steps of the export run                                      *)
(***************************************************************************)
\* the namespace parse_args returns when no option is given
DefaultArgs ==
    [start_date |-> None, end_date |-> None, sender |-> NoneList,
     subject_keyword |-> NoneList, body_keyword |-> NoneList,
     with_attachments |-> FALSE, without_attachments |-> FALSE,
     include_inline |-> FALSE, dry_run |-> FALSE,
     export_mail |-> FALSE, export_markdown |-> FALSE,
     duplicates_subfolder |-> <<"d">>,
     subject_sanitize_length |-> SubjectSanitizeLength]

\* the command lines of the runs explored: one option switched on at a time
RunArgs ==
    {DefaultArgs,
     [DefaultArgs EXCEPT !.dry_run = TRUE],
     [DefaultArgs EXCEPT !.include_inline = TRUE],
     [DefaultArgs EXCEPT !.with_attachments = TRUE],
     [DefaultArgs EXCEPT !.export_mail = TRUE],
     [DefaultArgs EXCEPT !.export_markdown = TRUE],
     [DefaultArgs EXCEPT !.with_attachments = TRUE, !.without_attachments = TRUE],
     [DefaultArgs EXCEPT !.export_mail = TRUE, !.export_markdown = TRUE]}

OrdinaryAttachment(name, content) ==
    [FileName |-> name, Position |-> 1, Type |-> 1, content |-> content,
     save_fails |-> FALSE, hash_fails |-> FALSE]

\* attachments a message can carry: equal and different names and contents,
\* a name that is another one's temp name, a name equal to the duplicates
\* subfolder, an inline image, one whose SaveAsFile raises and one whose
\* temp file cannot be hashed
AttachmentSample ==
    {OrdinaryAttachment(<<"a">>, 1), OrdinaryAttachment(<<"a">>, 2),
     OrdinaryAttachment(<<"a", ".", "t", "m", "p">>, 1),
     OrdinaryAttachment(<<"d">>, 2),
     [OrdinaryAttachment(<<"a">>, 1) EXCEPT !.Position = 0, !.Type = OlByValue],
     [OrdinaryAttachment(<<"a">>, 1) EXCEPT !.save_fails = TRUE],
     [OrdinaryAttachment(<<"a">>, 2) EXCEPT !.hash_fails = TRUE]}

SubjectSample == {<<"s">>, <<"u">>}

AttachmentLists == UNION {[1..n -> AttachmentSample] : n \in 0..MaxAttachments}

\* the state of a run that has just started with namespace a
StartOfRun(a) ==
    /\ cli_args = a
    /\ status = "init"
    /\ in_msg = FALSE
    /\ cur_msg = [id |-> 0, subject |-> <<>>, body |-> <<>>, sender_email |-> <<>>,
                  received_time |-> 0, attachments |-> 0, items |-> <<>>]
    /\ idx = 1
    /\ n_msgs = 0
    /\ n_atts = 0
    /\ saved_attachments = <<>>
    /\ fs = EmptyDict
    /\ dirs = {}
    /\ seen_hashes = EmptyDict
    /\ saved = <<>>
    /\ saved_count = 0
    /\ matched_messages = 0

InitExportVars == \E a \in RunArgs : StartOfRun(a)

Tree == [fs |-> fs, dirs |-> dirs, seen_hashes |-> seen_hashes]

\* the message object the folder yields
NewMessage(id, subject, items) ==
    [id |-> id, subject |-> subject, body |-> <<>>, sender_email |-> <<"x">>,
     received_time |-> 0, attachments |-> Len(items), items |-> items]

\* process_messages after save_mail or save_markdown returned r
CountMessageFile(kind, r) ==
    /\ fs' = r.fs /\ dirs' = r.dirs
    /\ saved_count' = IF r.ret # NoPath THEN saved_count + 1 ELSE saved_count
    /\ saved' = IF r.written
                THEN Append(saved, [kind |-> kind, path |-> r.ret,
                                    content |-> r.fs[r.ret], duplicate |-> FALSE,
                                    target_dir |-> Parent(r.ret),
                                    filename |-> Name(r.ret)])
                ELSE saved

\* process_messages after save_attachment returned r; an exception that
\* leaves save_attachment ends process_messages
CountAttachment(r) ==
    /\ fs' = r.fs /\ dirs' = r.dirs /\ seen_hashes' = r.seen_hashes
    /\ status' = IF r.raised THEN "failed" ELSE status
    /\ saved_attachments' = IF r.ret # NoPath THEN Append(saved_attachments, r.ret)
                            ELSE saved_attachments
    /\ saved_count' = IF r.ret # NoPath THEN saved_count + 1 ELSE saved_count
    /\ saved' = IF r.written
                THEN Append(saved, [kind |-> "attachment", path |-> r.ret,
                                    content |-> r.fs[r.ret], duplicate |-> r.duplicate,
                                    target_dir |-> r.target_dir,
                                    filename |-> r.filename, msg |-> cur_msg.id])
                ELSE saved

\* a slip that only checks the attachment switches
ConfigConflict_switches(args) == args.with_attachments /\ args.without_attachments

\* run_export: the two configuration conflicts it rejects
ConfigConflict(args) ==
    \/ args.with_attachments /\ args.without_attachments
    \/ args.export_mail /\ args.export_markdown

\* run_export up to the message loop: a conflict is logged and 2 is
\* returned; otherwise process_messages connects to Outlook, creates the
\* output directory and starts the loop
RunExport ==
    /\ status = "init"
    /\ IF ConfigConflict(cli_args)
       THEN status' = "config_error" /\ UNCHANGED dirs
       ELSE status' = "running" /\ dirs' = dirs \cup {<<>>}
    /\ UNCHANGED <<cli_args, in_msg, cur_msg, idx, n_msgs, n_atts, saved_attachments,
                   fs, seen_hashes, saved, saved_count, matched_messages>>
    /\ UNCHANGED <<trackerVars, filterVars, pathVars, exporterVars, iterVars, tuiVars>>

\* what run_export returns (None while it runs)
return_code ==
    CASE status = "config_error" -> 2
      [] status = "failed" -> 1
      [] status = "done" -> 0
      [] OTHER -> None

\* process_messages has connected to Outlook (win32com Dispatch)
Connected == status \in {"running", "done", "failed"}

\* the body of the message loop up to the attachment loop
TakeMessage(message, ok) ==
    /\ cur_msg' = message
    /\ IF ~message_matches(message, cli_args)
       THEN UNCHANGED <<in_msg, fs, dirs, saved, saved_count, matched_messages>>
       ELSE /\ matched_messages' = matched_messages + 1
            /\ IF cli_args.export_mail
               THEN /\ CountMessageFile("mail", save_mail(Tree, message, cli_args, ok))
                    /\ UNCHANGED in_msg
               ELSE /\ in_msg' = ~(/\ ~cli_args.export_markdown
                                   /\ \/ message.attachments = 0 /\ cli_args.with_attachments
                                      \/ message.attachments > 0 /\ cli_args.without_attachments)
                    /\ UNCHANGED <<fs, dirs, saved, saved_count>>

\* process_messages: the loop takes the next message of the folder, filters
\* it and, in --export-mail mode, saves it; otherwise it enters the
\* attachment loop of the message
BeginMessage ==
    /\ status = "running" /\ ~in_msg /\ n_msgs < MaxMessages
    /\ \E subject \in SubjectSample, items \in AttachmentLists, ok \in BOOLEAN :
        /\ n_atts + Len(items) <= MaxAttachments
        /\ n_atts' = n_atts + Len(items)
        /\ TakeMessage(NewMessage(n_msgs + 1, subject, items), ok)
    /\ n_msgs' = n_msgs + 1
    /\ idx' = 1
    /\ saved_attachments' = <<>>
    /\ UNCHANGED <<cli_args, status, seen_hashes>>
    /\ UNCHANGED <<trackerVars, filterVars, pathVars, exporterVars, iterVars, tuiVars>>

\* one pass of the attachment loop: save_attachment on attachment idx
ProcessAttachment ==
    /\ status = "running" /\ in_msg /\ idx <= Len(cur_msg.items)
    /\ CountAttachment(save_attachment(Tree, cur_msg, cur_msg.items[idx], cli_args))
    /\ idx' = idx + 1
    /\ UNCHANGED <<cli_args, in_msg, cur_msg, n_msgs, n_atts, matched_messages>>
    /\ UNCHANGED <<trackerVars, filterVars, pathVars, exporterVars, iterVars, tuiVars>>

\* the attachment loop of the message is over; --export-markdown writes the
\* markdown file of the message now
EndMessage ==
    /\ status = "running" /\ in_msg /\ idx > Len(cur_msg.items)
    /\ in_msg' = FALSE
    /\ IF cli_args.export_markdown
       THEN \E ok \in BOOLEAN :
                CountMessageFile("markdown", save_markdown(Tree, cur_msg, cli_args,
                                                           saved_attachments, ok))
       ELSE UNCHANGED <<fs, dirs, saved, saved_count>>
    /\ UNCHANGED <<cli_args, status, cur_msg, idx, n_msgs, n_atts, saved_attachments,
                   seen_hashes, matched_messages>>
    /\ UNCHANGED <<trackerVars, filterVars, pathVars, exporterVars, iterVars, tuiVars>>

\* the folder has no further message: process_messages returns saved_count
Finish ==
    /\ status = "running" /\ ~in_msg
    /\ status' = "done"
    /\ UNCHANGED <<cli_args, in_msg, cur_msg, idx, n_msgs, n_atts, saved_attachments,
                   fs, dirs, seen_hashes, saved, saved_count, matched_messages>>
    /\ UNCHANGED <<trackerVars, filterVars, pathVars, exporterVars, iterVars, tuiVars>>

(***************************************************************************)
(* Path utilities (storage/path_utils.py)                                  *)
(***************************************************************************)
\* a slip that forgets the truncation to max_length
sanitize_for_filesystem_untruncated(value, max_length) ==
    EnsureNotEmpty(RStrip(ReplaceInvalid(Strip(value)), {".", " "}))

\* a slip that forgets to replace the invalid characters
sanitize_for_filesystem_unreplaced(value, max_length) ==
    EnsureNotEmpty(Truncate(RStrip(Strip(value), {".", " "}), max_length))

\* a slip that forgets to strip the trailing dots and spaces
sanitize_for_filesystem_unstripped(value, max_length) ==
    EnsureNotEmpty(Truncate(ReplaceInvalid(Strip(value)), max_length))

\* path_utils.sanitize_for_filesystem: strip, replace the invalid
\* characters, strip trailing dots and spaces, truncate, never empty
sanitize_for_filesystem(value, max_length) ==
    EnsureNotEmpty(Truncate(RStrip(ReplaceInvalid(Strip(value)), {".", " "}), max_length))

\* len(str(base_dir / ...)) for a base directory of base_len characters
StrLenIn(base_len, path) == base_len + Len(path) + PathChars(path)

\* a slip that skips the 50-character rung of the ladder
FolderLadder_skip(base_len, dir0, dir1, dir2, flat) ==
    IF StrLenIn(base_len, dir0) > PathLimit
    THEN IF StrLenIn(base_len, dir2) > PathLimit THEN flat ELSE dir2
    ELSE dir0

\* create_email_folder_path: the nested length checks
FolderLadder(base_len, dir0, dir1, dir2, flat) ==
    IF StrLenIn(base_len, dir0) > PathLimit
    THEN IF StrLenIn(base_len, dir1) > PathLimit
         THEN IF StrLenIn(base_len, dir2) > PathLimit THEN flat ELSE dir2
         ELSE dir1
    ELSE dir0

\* a slip that sanitizes the subject with the sender's bound
create_email_folder_path_from_wide(base_len, sender, subject, date_str, subject_max_length) ==
    FolderLadder(base_len,
        <<sender, sanitize_for_filesystem(subject, SenderMax), date_str>>,
        <<sender, sanitize_for_filesystem(subject, ShortSubjectMax), date_str>>,
        <<sender, <<"s", "u", "b", "j", "_">> \o Md5Hex8(subject), date_str>>,
        <<sanitize_for_filesystem(sender \o <<"_">> \o date_str, FallbackMax)>>)

\* create_email_folder_path once the sender is sanitized: the candidates
create_email_folder_path_from(base_len, sender, subject, date_str, subject_max_length) ==
    FolderLadder(base_len,
        <<sender, sanitize_for_filesystem(subject, subject_max_length), date_str>>,
        <<sender, sanitize_for_filesystem(subject, ShortSubjectMax), date_str>>,
        <<sender, <<"s", "u", "b", "j", "_">> \o Md5Hex8(subject), date_str>>,
        <<sanitize_for_filesystem(sender \o <<"_">> \o date_str, FallbackMax)>>)

\* path_utils.create_email_folder_path; the result is the sequence of path
\* parts under base_dir, base_dir being base_len characters long
create_email_folder_path(base_len, sender_email, subject, date_str, subject_max_length) ==
    create_email_folder_path_from(base_len, sanitize_for_filesystem(sender_email, SenderMax),
                                  subject, date_str, subject_max_length)

\* path.with_name(f"{path.stem}_{counter}{path.suffix}")
Numbered(path, counter) ==
    with_name(path, Stem(Name(path)) \o <<"_">> \o IntToStr(counter) \o Suffix(Name(path)))

RECURSIVE FirstFree(_, _, _)
\* the loop of ensure_unique_path
FirstFree(S, path, counter) ==
    IF ~Exists(S, Numbered(path, counter)) THEN Numbered(path, counter)
    ELSE FirstFree(S, path, counter + 1)

\* a slip that numbers from the count of existing files on
ensure_unique_path_skip(S, path) ==
    IF ~Exists(S, path) THEN path ELSE FirstFree(S, path, 2)

\* path_utils.ensure_unique_path on the file tree S
ensure_unique_path(S, path) ==
    IF ~Exists(S, path) THEN path ELSE FirstFree(S, path, 1)

(***************************************************************************)
(* Inputs and steps of the path utilities                                  *)
(***************************************************************************)
Repeat(c, n) == [i \in 1..n |-> c]

\* characters of every class sanitize_for_filesystem treats differently
SanitizeAlphabet == {"a", " ", "\t", ".", "_", ":"}
SanitizeInputs == SeqsUpTo(SanitizeAlphabet, MaxSanitizeLen)
SanitizeBounds == 0..(MaxSanitizeLen + 1)

\* base directories short enough for every rung of the ladder to be taken
BaseLens == {PathLimit - 100 + 30 * k : k \in 0..MaxBaseSteps}
SenderSample == {<<"x">>, <<"w", ":", "n">>}
LongSubjects ==
    {<<"s">>, Repeat("a", 60), Repeat("a", 100),
     Repeat("a", 49) \o <<" ">> \o Repeat("b", 50)}
SubjectMaxLengths == {0, 10, ShortSubjectMax, SubjectSanitizeLength}
DateStr == <<"2", "0", "2", "4", "-", "0", "1", "-", "1", "5">>

\* file names ensure_unique_path meets: f.e and its numbered siblings, and
\* a name without extension
FileE == <<"f", ".", "e">>
SiblingNames == {FileE, <<"g">>} \cup {Name(Numbered(<<FileE>>, k)) : k \in 1..MaxSiblings}

InitPathVars ==
    /\ p_call = [op |-> "init"]
    /\ p_result = <<>>

ApplySanitizeForFilesystem ==
    /\ p_call.op = "init"
    /\ \E value \in SanitizeInputs, max_length \in SanitizeBounds :
        /\ p_call' = [op |-> "sanitize_for_filesystem", value |-> value,
                      max_length |-> max_length]
        /\ p_result' = sanitize_for_filesystem(value, max_length)
    /\ UNCHANGED <<trackerVars, filterVars, exportVars, exporterVars, iterVars, tuiVars>>

ApplyCreateEmailFolderPath ==
    /\ p_call.op = "init"
    /\ \E base_len \in BaseLens, sender_email \in SenderSample, subject \in LongSubjects,
          subject_max_length \in SubjectMaxLengths :
        /\ p_call' = [op |-> "create_email_folder_path", base_len |-> base_len,
                      sender_email |-> sender_email, subject |-> subject,
                      date_str |-> DateStr, subject_max_length |-> subject_max_length]
        /\ p_result' = create_email_folder_path(base_len, sender_email, subject, DateStr,
                                                subject_max_length)
    /\ UNCHANGED <<trackerVars, filterVars, exportVars, exporterVars, iterVars, tuiVars>>

\* some file of the directory comes into existence
TouchFile ==
    /\ p_call.op \in {"init", "touch", "ensure_unique_path"}
    /\ \E name \in SiblingNames :
        /\ <<name>> \notin DOMAIN fs
        /\ fs' = WriteFile(fs, <<name>>, [kind |-> "att", id |-> 0])
    /\ p_call' = [op |-> "touch"]
    /\ p_result' = <<>>
    /\ UNCHANGED <<cli_args, status, in_msg, cur_msg, idx, n_msgs, n_atts,
                   saved_attachments, dirs, seen_hashes, saved, saved_count,
                   matched_messages>>
    /\ UNCHANGED <<trackerVars, filterVars, exporterVars, iterVars, tuiVars>>

\* ensure_unique_path(path); the call record keeps the files before and
\* after the call and what the previous call returned for the same path
CallEnsureUniquePath ==
    /\ p_call.op \in {"init", "touch", "ensure_unique_path"}
    /\ UNCHANGED exportVars
    /\ \E name \in {FileE, <<"g">>} :
        /\ p_call' = [op |-> "ensure_unique_path", path |-> <<name>>,
                      before |-> DOMAIN fs, after |-> DOMAIN fs',
                      repeated |-> (p_call.op = "ensure_unique_path" /\ p_call.path = <<name>>),
                      previous |-> p_result]
        /\ p_result' = ensure_unique_path([fs |-> fs, dirs |-> dirs], <<name>>)
    /\ UNCHANGED <<trackerVars, filterVars, exporterVars, iterVars, tuiVars>>

\* main.save_attachment, the choice of the final name of an attachment
\* called name in its destination folder (the target folder, or the
\* duplicates subfolder when duplicate), here the root of the file tree
CallResolveCollision ==
    /\ p_call.op \in {"init", "touch"}
    /\ \E name \in {FileE, <<"g">>}, duplicate \in BOOLEAN :
        /\ p_call' = [op |-> "resolve_collision", path |-> <<name>>,
                      duplicate |-> duplicate, before |-> DOMAIN fs]
        /\ p_result' = IF duplicate
                       THEN DuplicateDest([fs |-> fs, dirs |-> dirs], <<>>, name, 1)
                       ELSE UniqueDest([fs |-> fs, dirs |-> dirs], <<name>>, <<name>>, 1)
    /\ UNCHANGED <<trackerVars, filterVars, exportVars, exporterVars, iterVars, tuiVars>>

(***************************************************************************)
(* The package's exporters (exporters/attachment.py, exporters/message.py) *)
(***************************************************************************)
\* ExportConfig, as far as the exporters read it
ExporterConfigs == [dry_run : BOOLEAN, include_inline : BOOLEAN]

\* attachments an exported message can carry: an ordinary one, an inline
\* image and one whose SaveAsFile raises
ExporterAttachments ==
    {[Position |-> 1, Type |-> 1, save_fails |-> FALSE],
     [Position |-> 0, Type |-> OlByValue, save_fails |-> FALSE],
     [Position |-> 1, Type |-> 1, save_fails |-> TRUE]}

ExporterAttachmentLists == SeqsUpTo(ExporterAttachments, MaxItems)

\* the state of an exporter that has just been constructed with config c
ExporterStart(c) ==
    /\ px_config = c
    /\ px_result = [attachments_saved |-> 0, errors |-> <<>>]
    /\ px_log = <<>>

InitExporterVars == ExporterStart([dry_run |-> FALSE, include_inline |-> FALSE])

\* ExportResult.add_error
add_error(result, error) == [result EXCEPT !.errors = Append(@, error)]

\* AttachmentExporter._save_attachment, by the way it ends: "skipped"
\* (inline, returns False), "dry" (dry run, returns True), "save_failed"
\* (SaveAsFile raised, logged, returns False) and "raised" (the call
\* self.duplicate_tracker.compute_hash raises, DuplicateTracker has no such
\* method, and the exception leaves _save_attachment)
AttachmentExporter_save_attachment(attachment, config) ==
    IF ~config.include_inline /\ attachment.Position = 0 /\ attachment.Type = OlByValue
    THEN "skipped"
    ELSE IF config.dry_run THEN "dry"
    ELSE IF attachment.save_fails THEN "save_failed"
    ELSE "raised"

\* _save_attachment returned True
ReturnedTrue(outcome) == outcome = "dry"

RECURSIVE ExportLoopOutcomes(_, _)
\* the outcomes of the passes of the loop of AttachmentExporter.export; a
\* pass that raises is caught by "except Exception: continue"
ExportLoopOutcomes(attachments, config) ==
    IF attachments = <<>> THEN <<>>
    ELSE <<AttachmentExporter_save_attachment(Head(attachments), config)>>
             \o ExportLoopOutcomes(Tail(attachments), config)

RECURSIVE CountTrue(_)
\* attachments_saved of AttachmentExporter.export
CountTrue(outcomes) ==
    IF outcomes = <<>> THEN 0
    ELSE (IF ReturnedTrue(Head(outcomes)) THEN 1 ELSE 0) + CountTrue(Tail(outcomes))

\* the history entries of one export call over attachments
AttachmentEntries(outcomes) ==
    [i \in 1..Len(outcomes) |->
        [kind |-> "attachment",
         failed |-> outcomes[i] \in {"save_failed", "raised"}]]

\* AttachmentExporter.export once the loop outcomes are known
RecordAttachments(outcomes) ==
    /\ px_result' = [px_result EXCEPT !.attachments_saved = @ + CountTrue(outcomes)]
    /\ px_log' = px_log \o AttachmentEntries(outcomes)

\* AttachmentExporter.export from line 56 on, for one message; access_fails
\* says whether reading outlook_message.Attachments raises
AttachmentExporterExport ==
    /\ \E attachments \in ExporterAttachmentLists, access_fails \in BOOLEAN :
        IF access_fails
        THEN /\ Len(px_log) < MaxItems
             /\ px_result' = add_error(px_result, "Failed to access attachments")
             /\ px_log' = Append(px_log, [kind |-> "attachments", failed |-> TRUE])
        ELSE /\ attachments # <<>>
             /\ Len(px_log) + Len(attachments) <= MaxItems
             /\ RecordAttachments(ExportLoopOutcomes(attachments, px_config))
    /\ UNCHANGED px_config
    /\ UNCHANGED <<trackerVars, filterVars, exportVars, pathVars, iterVars, tuiVars>>

\* the end of MessageExporter.export and of MarkdownExporter.export, which
\* are alike: in a dry run the counter is increased and the path returned;
\* otherwise the file is written (save_ok says whether that succeeds), then
\* result.files_exported += 1 raises inside the try block (ExportResult has
\* no such attribute), so the except block records an error and None is
\* returned whether or not the file was written
WriteExportFile(kind, log, save_ok) ==
    IF px_config.dry_run
    THEN /\ px_result' = [px_result EXCEPT !.attachments_saved = @ + 1]
         /\ px_log' = Append(log, [kind |-> kind, failed |-> FALSE, written |-> FALSE,
                                   counted |-> 1, returned |-> TRUE, error |-> FALSE])
    ELSE /\ px_result' = add_error(px_result, "Failed to save")
         /\ px_log' = Append(log, [kind |-> kind, failed |-> ~save_ok, written |-> save_ok,
                                   counted |-> 0, returned |-> FALSE, error |-> TRUE])

\* MessageExporter.export from line 50 on
MessageExporterExport ==
    /\ Len(px_log) < MaxItems
    /\ \E save_ok \in BOOLEAN : WriteExportFile("message", px_log, save_ok)
    /\ UNCHANGED px_config
    /\ UNCHANGED <<trackerVars, filterVars, exportVars, pathVars, iterVars, tuiVars>>

\* MarkdownExporter.export from line 61 on: _export_attachments saves the
\* attachments with _save_attachment, swallowing every exception and leaving
\* the result alone, then the markdown file is written
MarkdownExporterExport ==
    /\ \E attachments \in ExporterAttachmentLists, save_ok \in BOOLEAN :
        /\ Len(px_log) + Len(attachments) < MaxItems
        /\ WriteExportFile("markdown",
                           px_log \o AttachmentEntries(ExportLoopOutcomes(attachments, px_config)),
                           save_ok)
    /\ UNCHANGED px_config
    /\ UNCHANGED <<trackerVars, filterVars, exportVars, pathVars, iterVars, tuiVars>>

\* a call with keyword arguments kwargs of a function whose parameters are
\* params, those in required having no default, binds (else TypeError)
Binds(params, required, kwargs) == kwargs \subseteq params /\ required \subseteq kwargs

\* AttachmentExporter.__init__: DuplicateTracker(algorithm=...) against
\* DuplicateTracker.__init__(self, hash_algorithm="sha256")
TrackerConstructed == Binds({"hash_algorithm"}, {}, {"algorithm"})

\* BaseExporter._create_base_folder: its call of create_email_folder_path
\* against the signature in storage/path_utils.py
FolderBuilderCalled ==
    Binds({"base_dir", "sender_email", "subject", "date_str", "subject_max_length"},
          {"base_dir", "sender_email", "subject", "date_str"},
          {"base_dir", "sender_email", "subject", "received_time", "subject_max_length"})

\* ExporterFactory.create_exporter(config, export_type) followed by
\* exporter.export(email, message, result) up to the return of
\* _create_base_folder: the attachment and markdown exporters construct a
\* DuplicateTracker, every exporter then asks the folder-path builder for
\* the folder, and a TypeError leaves the call
ExportStrategy ==
    /\ Len(px_log) < MaxItems
    /\ \E export_type \in {"attachments", "msg", "markdown"} :
        px_log' = Append(px_log,
            [kind |-> "strategy", export_type |-> export_type,
             constructed |-> export_type = "msg" \/ TrackerConstructed,
             folders |-> IF (export_type = "msg" \/ TrackerConstructed) /\ FolderBuilderCalled
                         THEN 1 ELSE 0,
             registered |-> 0, saved |-> 0])
    /\ UNCHANGED <<px_config, px_result>>
    /\ UNCHANGED <<trackerVars, filterVars, exportVars, pathVars, iterVars, tuiVars>>

(***************************************************************************)
(* The batched enumeration (main.iterate_messages,                         *)
(* OutlookClient.iterate_messages)                                         *)
(***************************************************************************)
\* "if limit": the limit is given and is not 0
LimitSet(limit) == limit # None /\ limit # 0

Min(a, b) == IF a <= b THEN a ELSE b

\* end_index of the batch that starts after processed; only the client caps
\* it by the limit
EndIndex(impl, processed, batch_size, total, limit) ==
    IF impl = "client" /\ LimitSet(limit)
    THEN Min(Min(processed + batch_size, total), limit)
    ELSE Min(processed + batch_size, total)

\* the generator when it is created
IterStart(impl, total, failing, limit, batch_size) ==
    /\ it_impl = impl /\ it_total = total /\ it_failing = failing
    /\ it_limit = limit /\ it_batch_size = batch_size
    /\ it_processed = 0 /\ it_end_index = 0 /\ it_i = 1
    /\ it_pc = "while" /\ it_attempted = <<>> /\ it_yielded = <<>>

InitIterVars == IterStart("main", 0, {}, None, 1)

\* the test of the while loop, the limit test and the computation of
\* end_index
IterWhile ==
    /\ it_pc = "while"
    /\ IF it_processed < it_total /\ ~(LimitSet(it_limit) /\ it_processed >= it_limit)
       THEN /\ it_end_index' = EndIndex(it_impl, it_processed, it_batch_size,
                                        it_total, it_limit)
            /\ it_i' = it_processed + 1
            /\ it_pc' = "for"
       ELSE /\ it_pc' = "done"
            /\ UNCHANGED <<it_end_index, it_i>>
    /\ UNCHANGED <<it_impl, it_total, it_failing, it_limit, it_batch_size,
                   it_processed, it_attempted, it_yielded>>
    /\ UNCHANGED <<trackerVars, filterVars, exportVars, pathVars, exporterVars, tuiVars>>

\* one pass of the for loop: items.Item(i) is yielded, or raises and is
\* skipped
IterAttempt ==
    /\ it_pc = "for" /\ it_i <= it_end_index
    /\ it_attempted' = Append(it_attempted, it_i)
    /\ it_yielded' = IF it_i \in it_failing THEN it_yielded
                                            ELSE Append(it_yielded, it_i)
    /\ it_i' = it_i + 1
    /\ UNCHANGED <<it_impl, it_total, it_failing, it_limit, it_batch_size,
                   it_processed, it_end_index, it_pc>>
    /\ UNCHANGED <<trackerVars, filterVars, exportVars, pathVars, exporterVars, tuiVars>>

\* the for loop is exhausted: processed = end_index
IterEndBatch ==
    /\ it_pc = "for" /\ it_i > it_end_index
    /\ it_processed' = it_end_index
    /\ it_pc' = "while"
    /\ UNCHANGED <<it_impl, it_total, it_failing, it_limit, it_batch_size,
                   it_end_index, it_i, it_attempted, it_yielded>>
    /\ UNCHANGED <<trackerVars, filterVars, exportVars, pathVars, exporterVars, tuiVars>>

(***************************************************************************)
(* A run started from the TUI (tui/app.py, main.run_export)                *)
(***************************************************************************)
\* OutlookExportTUI.get_args for a non-empty output directory; the text
\* inputs of the filters are left empty
get_args(dry_run, output_dir, attachment_option_id, include_inline, export_mail) ==
    [output |-> output_dir, start_date |-> None, end_date |-> None,
     sender |-> None, subject_keyword |-> None, body_keyword |-> None,
     with_attachments |-> attachment_option_id = "with-attachments",
     without_attachments |-> attachment_option_id = "without-attachments",
     folder |-> None, limit |-> None, batch_size |-> 200, dry_run |-> dry_run,
     open_folder |-> FALSE, log_file |-> None, duplicates_subfolder |-> "duplicates",
     hash_algorithm |-> "sha256", include_inline |-> include_inline,
     export_mail |-> export_mail, subject_sanitize_length |-> 80, verbose |-> 0,
     quiet |-> FALSE]

RECURSIVE FirstMissing(_, _)
\* the first of the options names, read in this order, that the namespace
\* does not define ("" when all are defined)
FirstMissing(args, names) ==
    IF names = <<>> THEN ""
    ELSE IF Head(names) \notin DOMAIN args THEN Head(names)
    ELSE FirstMissing(args, Tail(names))

\* how far a call got: pc "raised" (an exception left run_export),
\* "returned" with a code, or "processing"
Outcome(pc, code, missing) == [pc |-> pc, code |-> code, missing |-> missing]

\* process_messages up to its message loop; an AttributeError raised here
\* is caught by run_export, which returns 1
process_messages_start(args, missing) ==
    IF missing # "" THEN Outcome("returned", 1, missing)
    ELSE Outcome("processing", None, "")

\* run_export after setup_logging: the two conflict tests read their second
\* option only when the first is set, and are outside the try block
run_export_checks(args) ==
    IF "with_attachments" \notin DOMAIN args
    THEN Outcome("raised", None, "with_attachments")
    ELSE IF args.with_attachments /\ "without_attachments" \notin DOMAIN args
    THEN Outcome("raised", None, "without_attachments")
    ELSE IF args.with_attachments /\ args.without_attachments
    THEN Outcome("returned", 2, "")
    ELSE IF "export_mail" \notin DOMAIN args
    THEN Outcome("raised", None, "export_mail")
    ELSE IF args.export_mail /\ "export_markdown" \notin DOMAIN args
    THEN Outcome("raised", None, "export_markdown")
    ELSE IF args.export_mail /\ args.export_markdown
    THEN Outcome("returned", 2, "")
    ELSE process_messages_start(args,
             FirstMissing(args, <<"folder", "output", "limit", "batch_size", "quiet">>))

\* run_export up to the message loop; setup_logging reads its options first
run_export_start(args, missing) ==
    IF missing # "" THEN Outcome("raised", None, missing)
    ELSE run_export_checks(args)

\* process_messages on one message that matched: the options it reads, in
\* order, with those of the saver it calls
MatchedMessageReads(args) ==
    IF "export_mail" \notin DOMAIN args THEN <<"export_mail">>
    ELSE IF args.export_mail THEN <<"subject_sanitize_length", "dry_run">>
    ELSE IF "export_markdown" \notin DOMAIN args THEN <<"export_markdown">>
    ELSE <<"with_attachments", "without_attachments", "include_inline",
           "subject_sanitize_length", "dry_run", "hash_algorithm",
           "duplicates_subfolder">>

\* the options message_matches reads; it catches every exception itself
FilterReads ==
    <<"start_date", "end_date", "sender", "subject_keyword", "body_keyword",
      "with_attachments", "without_attachments">>

TuiSet(args, o, msgs) ==
    /\ tui_args' = args
    /\ tui_pc' = o.pc /\ tui_code' = o.code /\ tui_missing' = o.missing
    /\ tui_msgs' = msgs

InitTuiVars ==
    /\ tui_args = <<>> /\ tui_pc = "idle" /\ tui_code = None
    /\ tui_missing = "" /\ tui_msgs = 0

\* on_button_pressed (Run or Dry Run): run_export_worker calls get_args and,
\* unless it returned None, run_export
PressRun ==
    /\ tui_pc \in {"idle", "no_args", "returned", "raised"}
    /\ \E dry_run \in BOOLEAN, output_dir \in {"", "out"}, include_inline \in BOOLEAN,
          export_mail \in BOOLEAN,
          attachment_option_id \in {"all-emails", "with-attachments", "without-attachments"} :
        IF output_dir = ""
        THEN TuiSet(tui_args, Outcome("no_args", None, ""), 0)
        ELSE TuiSet(get_args(dry_run, output_dir, attachment_option_id, include_inline,
                             export_mail),
                    run_export_start(
                        get_args(dry_run, output_dir, attachment_option_id,
                                 include_inline, export_mail),
                        FirstMissing(
                            get_args(dry_run, output_dir, attachment_option_id,
                                     include_inline, export_mail),
                            <<"quiet", "verbose", "log_file">>)),
                    0)
    /\ UNCHANGED <<trackerVars, filterVars, exportVars, pathVars, exporterVars, iterVars>>

\* one pass of the loop of process_messages; matched is what message_matches
\* returned. An AttributeError is caught by run_export, which returns 1
TuiProcessMessage ==
    /\ tui_pc = "processing" /\ tui_msgs < MaxMessages
    /\ \E matched \in BOOLEAN :
        /\ matched => FirstMissing(tui_args, FilterReads) = ""
        /\ IF matched /\ FirstMissing(tui_args, MatchedMessageReads(tui_args)) # ""
           THEN TuiSet(tui_args,
                       Outcome("returned", 1,
                               FirstMissing(tui_args, MatchedMessageReads(tui_args))),
                       tui_msgs + 1)
           ELSE TuiSet(tui_args, Outcome("processing", None, ""), tui_msgs + 1)
    /\ UNCHANGED <<trackerVars, filterVars, exportVars, pathVars, exporterVars, iterVars>>

\* the folder has no further message: run_export reads open_folder and
\* returns 0
TuiFinish ==
    /\ tui_pc = "processing"
    /\ IF "open_folder" \in DOMAIN tui_args
       THEN TuiSet(tui_args, Outcome("returned", 0, ""), tui_msgs)
       ELSE TuiSet(tui_args, Outcome("returned", 1, "open_folder"), tui_msgs)
    /\ UNCHANGED <<trackerVars, filterVars, exportVars, pathVars, exporterVars, iterVars>>

(***************************************************************************)
(* Specifications                                                          *)
(***************************************************************************)
InitTracker == InitTrackerVars /\ InitFilterVars /\ StartOfRun(DefaultArgs)
               /\ InitPathVars /\ InitExporterVars /\ InitIterVars /\ InitTuiVars

NextTracker ==
    \/ TrackerRegisterFile
    \/ TrackerIsDuplicate
    \/ TrackerGetOriginalLocations
    \/ TrackerGetStatistics
    \/ TrackerClear

SpecTracker == InitTracker /\ [][NextTracker]_vars

InitFilter == InitTrackerVars /\ InitFilterVars /\ StartOfRun(DefaultArgs)
              /\ InitPathVars /\ InitExporterVars /\ InitIterVars /\ InitTuiVars

NextFilter ==
    \/ ApplyDateRangeFilter
    \/ ApplySenderFilter
    \/ ApplySubjectKeywordFilter
    \/ ApplyBodyKeywordFilter
    \/ ApplyAttachmentPresenceFilter
    \/ ApplyPassThroughFilter
    \/ ApplyCompositeFilter
    \/ ApplyMessageMatches

SpecFilter == InitFilter /\ [][NextFilter]_vars

Init == InitTrackerVars /\ InitFilterVars /\ InitExportVars
        /\ InitPathVars /\ InitExporterVars /\ InitIterVars /\ InitTuiVars

Next ==
    \/ RunExport
    \/ BeginMessage
    \/ ProcessAttachment
    \/ EndMessage
    \/ Finish

Spec == Init /\ [][Next]_vars

InitPath == InitTrackerVars /\ InitFilterVars /\ StartOfRun(DefaultArgs)
            /\ InitPathVars /\ InitExporterVars /\ InitIterVars /\ InitTuiVars

NextPath ==
    \/ ApplySanitizeForFilesystem
    \/ ApplyCreateEmailFolderPath
    \/ TouchFile
    \/ CallEnsureUniquePath
    \/ CallResolveCollision

SpecPath == InitPath /\ [][NextPath]_vars

InitExporter == /\ InitTrackerVars /\ InitFilterVars /\ StartOfRun(DefaultArgs)
                /\ InitPathVars /\ InitIterVars /\ InitTuiVars
                /\ \E c \in ExporterConfigs : ExporterStart(c)

NextExporter ==
    \/ AttachmentExporterExport
    \/ MessageExporterExport
    \/ MarkdownExporterExport
    \/ ExportStrategy

SpecExporter == InitExporter /\ [][NextExporter]_vars

InitIter == /\ InitTrackerVars /\ InitFilterVars /\ StartOfRun(DefaultArgs)
            /\ InitPathVars /\ InitExporterVars /\ InitTuiVars
            /\ \E impl \in {"main", "client"}, total \in 0..MaxTotal,
                  limit \in {None} \cup (0..MaxLimit), batch_size \in 0..MaxBatchSize :
                  \E failing \in SUBSET (1..total) :
                      IterStart(impl, total, failing, limit, batch_size)

NextIter ==
    \/ IterWhile
    \/ IterAttempt
    \/ IterEndBatch

SpecIter == InitIter /\ [][NextIter]_vars

\* the consumer (the for loop of process_messages) keeps asking the generator
\* for its next item
SpecIterLive == SpecIter /\ WF_vars(NextIter)

InitTui == /\ InitTrackerVars /\ InitFilterVars /\ StartOfRun(DefaultArgs)
           /\ InitPathVars /\ InitExporterVars /\ InitIterVars /\ InitTuiVars

NextTui ==
    \/ PressRun
    \/ TuiProcessMessage
    \/ TuiFinish

SpecTui == InitTui /\ [][NextTui]_vars

(***************************************************************************)
(* Claims on the DuplicateTracker                                          *)
(***************************************************************************)
\* the paths registered for hash h, in registration order
RECURSIVE PathsRegisteredFor(_, _)
PathsRegisteredFor(h, log) ==
    IF log = <<>> THEN <<>>
    ELSE LET rest == PathsRegisteredFor(h, Tail(log))
         IN  IF Head(log).hash = h THEN <<Head(log).path>> \o rest ELSE rest

RegisteredHashes(log) == {log[i].hash : i \in 1..Len(log)}

\* C3: is_duplicate(h) is true iff h was registered before; the list stored
\* for h is exactly the paths registered for h in registration order (so the
\* first registered path stays first) and no stored list is empty.
C3_TrackerMirrorsRegistrations ==
    /\ \A h \in TrackerHashes :
         is_duplicate(dt_seen_hashes, h) <=> h \in RegisteredHashes(dt_log)
    /\ \A h \in DOMAIN dt_seen_hashes :
         /\ dt_seen_hashes[h] = PathsRegisteredFor(h, dt_log)
         /\ dt_seen_hashes[h] # <<>>
    /\ dt_last.op = "is_duplicate" =>
         (dt_last.result <=> dt_last.hash \in RegisteredHashes(dt_log))

\* a hash registered twice with different paths, then queried
C3_Witness ==
    /\ dt_last.op = "is_duplicate"
    /\ dt_last.result
    /\ Len(dt_seen_hashes[dt_last.hash]) >= 2
    /\ dt_seen_hashes[dt_last.hash][1] # dt_seen_hashes[dt_last.hash][2]
    /\ \E h \in TrackerHashes : ~is_duplicate(dt_seen_hashes, h)

\* C4: get_statistics reports unique_files = distinct hashes registered,
\* total_files = number of register_file calls, duplicate_files = their
\* difference (never negative); H registered with P1 then P2 gives 1.
C4_StatisticsCountRegistrations ==
    dt_last.op = "get_statistics" =>
        /\ dt_last.result.unique_files = Cardinality(RegisteredHashes(dt_log))
        /\ dt_last.result.total_files = Len(dt_log)
        /\ dt_last.result.duplicate_files =
             Len(dt_log) - Cardinality(RegisteredHashes(dt_log))
        /\ dt_last.result.duplicate_files >= 0
        /\ (Len(dt_log) = 2 /\ dt_log[1].hash = dt_log[2].hash)
             => dt_last.result.duplicate_files = 1

\* statistics read after H was registered with P1 and then with P2
C4_Witness ==
    /\ dt_last.op = "get_statistics"
    /\ Len(dt_log) = 2
    /\ dt_log[1].hash = dt_log[2].hash
    /\ dt_log[1].path # dt_log[2].path
    /\ dt_last.result.duplicate_files = 1

(***************************************************************************)
(* Claims on the filter predicates                                         *)
(***************************************************************************)
\* s and t are equal when letter case is ignored
EqualIgnoringCase(s, t) ==
    /\ Len(s) = Len(t)
    /\ \A j \in 1..Len(s) : LowerChar(s[j]) = LowerChar(t[j])

\* kw occurs in text at some offset when letter case is ignored
OccursIgnoringCase(kw, text) ==
    \E off \in 0..(Len(text) - Len(kw)) :
        \A j \in 1..Len(kw) : LowerChar(kw[j]) = LowerChar(text[off + j])

Reverse(l) == [i \in 1..Len(l) |-> l[Len(l) + 1 - i]]

\* the namespace a carries no criterion other than those named in keep
OnlyCriteria(a, keep) ==
    /\ "date" \in keep \/ (a.start_date = None /\ a.end_date = None)
    /\ "sender" \in keep \/ ~a.sender.some
    /\ "subject" \in keep \/ ~a.subject_keyword.some
    /\ "body" \in keep \/ ~a.body_keyword.some
    /\ "attachments" \in keep \/ (~a.with_attachments /\ ~a.without_attachments)

\* C5: CompositeFilter.matches(email) is true iff every component filter
\* matches the email, whatever the order of the components; with no
\* component it is true.
C5_CompositeIsConjunction ==
    f_call.op = "CompositeFilter" =>
        /\ f_result <=> \A i \in 1..Len(f_call.filters) :
                            matches(f_call.filters[i], f_email)
        /\ CompositeFilter_matches(Reverse(f_call.filters), f_email) = f_result
        /\ f_call.filters = <<>> => f_result

\* a composite whose first component accepts and whose last one rejects
C5_Witness ==
    /\ f_call.op = "CompositeFilter"
    /\ Len(f_call.filters) >= 2
    /\ f_call.filters[1].kind # f_call.filters[Len(f_call.filters)].kind
    /\ matches(f_call.filters[1], f_email)
    /\ ~matches(f_call.filters[Len(f_call.filters)], f_email)
    /\ ~f_result

\* the sender predicate of the claim: reject iff the allow-list is non-empty
\* and no entry equals the sender ignoring case
SenderRejected(allow, sender_email) ==
    /\ allow # <<>>
    /\ \A i \in 1..Len(allow) : ~EqualIgnoringCase(allow[i], sender_email)

\* C6: the sender predicate rejects an email iff the allow-list is non-empty
\* and no entry equals sender_email ignoring case; an empty allow-list
\* matches every email.
C6_SenderRejectsIffListedAndNoMatch ==
    /\ f_call.op = "SenderFilter" =>
         (~f_result <=> SenderRejected(f_call.senders, f_email.sender_email))
    /\ (f_call.op = "message_matches" /\ OnlyCriteria(f_call.args, {"sender"})) =>
         (~f_result <=> SenderRejected(f_call.args.sender.v, f_email.sender_email))

\* C7: the subject-keyword predicate matches iff every keyword occurs in the
\* subject ignoring case (no keywords: always); the body-keyword predicate
\* does the same on the body; message_matches agrees on both.
C7_AllKeywordsOccurIgnoringCase ==
    /\ f_call.op = "SubjectKeywordFilter" =>
         (f_result <=> \A i \in 1..Len(f_call.keywords) :
                          OccursIgnoringCase(f_call.keywords[i], f_email.subject))
    /\ f_call.op = "BodyKeywordFilter" =>
         (f_result <=> \A i \in 1..Len(f_call.keywords) :
                          OccursIgnoringCase(f_call.keywords[i], f_email.body))
    /\ f_call.op = "message_matches" =>
         LET a == f_call.args
             subjectOK == \A i \in 1..Len(a.subject_keyword.v) :
                 OccursIgnoringCase(a.subject_keyword.v[i], f_email.subject)
             bodyOK == \A i \in 1..Len(a.body_keyword.v) :
                 OccursIgnoringCase(a.body_keyword.v[i], f_email.body)
         IN  /\ f_result => (subjectOK /\ bodyOK)
             /\ OnlyCriteria(a, {"subject", "body"}) => (f_result <=> (subjectOK /\ bodyOK))

\* two keywords, both found, the first one only because case is ignored
C7_Witness ==
    /\ f_call.op = "SubjectKeywordFilter"
    /\ Len(f_call.keywords) = 2
    /\ ~EqualIgnoringCase(f_call.keywords[1], f_call.keywords[2])
    /\ ~Contains(f_call.keywords[1], f_email.subject)
    /\ Len(f_call.keywords[2]) >= 1
    /\ f_result

\* C8: the date-range predicate rejects iff a start bound is given and
\* received_time < start, or an end bound is given and received_time > end;
\* an email received exactly at a bound matches; no bounds: always matches.
C8_DateRangeInclusive ==
    f_call.op = "DateRangeFilter" =>
        LET s == f_call.start_date
            e == f_call.end_date
            t == f_email.received_time
        IN  /\ ~f_result <=> ((s # None /\ t < s) \/ (e # None /\ t > e))
            /\ (s # None /\ t = s /\ (e = None \/ s <= e)) => f_result
            /\ (e # None /\ t = e /\ (s = None \/ s <= e)) => f_result
            /\ (s = None /\ e = None) => f_result

\* an email received exactly at the start bound of a proper range
C8_Witness ==
    /\ f_call.op = "DateRangeFilter"
    /\ f_call.start_date # None
    /\ f_call.end_date # None
    /\ f_email.received_time = f_call.start_date
    /\ f_call.start_date < f_call.end_date
    /\ f_result

\* C9: with ISO dates as bounds, a message received on any tick of a day
\* from the start date to the end date (both days included) passes the
\* date filter.
C9_IsoDateBoundsIncludeTheDay ==
    (f_call.op = "message_matches" /\ OnlyCriteria(f_call.args, {"date"})) =>
        LET a == f_call.args
            day == DayOf(f_email.received_time)
        IN  ((a.start_date = None \/ a.start_date <= day)
             /\ (a.end_date = None \/ day <= a.end_date)) => f_result

AttachmentSaves == {i \in 1..Len(saved) : saved[i].kind = "attachment"}

\* an attachment with the same bytes was saved earlier in the run
SavedEarlier(i) ==
    \E j \in AttachmentSaves : j < i /\ saved[j].content = saved[i].content

\* name is filename with _n before the extension
NumberedName(filename, name) ==
    \E n \in 1..(MaxAttachments + 1) :
        name = Stem(filename) \o <<"_">> \o IntToStr(n) \o Suffix(filename)

\* C1: a saved attachment lies in the duplicates subfolder of its own
\* message folder if and only if an attachment with the same content was
\* saved earlier in the run, whatever the names and whichever the message;
\* otherwise it lies in the message folder under its target filename (or a
\* numbered variant of it).
C1_DuplicateIffContentSavedEarlier ==
    \A i \in AttachmentSaves :
        LET e == saved[i]
        IN  IF SavedEarlier(i)
            THEN Parent(e.path) = e.target_dir \o <<cli_args.duplicates_subfolder>>
            ELSE /\ Parent(e.path) = e.target_dir
                 /\ \/ Name(e.path) = e.filename
                    \/ NumberedName(e.filename, Name(e.path))

\* a duplicate was detected across two messages and two different filenames
C1_Witness ==
    \E i, j \in AttachmentSaves :
        /\ i < j
        /\ saved[i].content = saved[j].content
        /\ saved[i].filename # saved[j].filename
        /\ saved[i].target_dir # saved[j].target_dir
        /\ Parent(saved[i].path) = saved[i].target_dir
        /\ Parent(saved[j].path) = saved[j].target_dir \o <<cli_args.duplicates_subfolder>>

\* C2: every file reported as saved still exists at its final path with its
\* own content, and no two saved files share a final path.
C2_SavedFilesKeepTheirPath ==
    \A i \in 1..Len(saved) :
        /\ saved[i].path \in DOMAIN fs
        /\ fs[saved[i].path] = saved[i].content
        /\ \A j \in 1..Len(saved) : j # i => saved[j].path # saved[i].path

\* the markdown files on disk
MarkdownFiles == {p \in DOMAIN fs : fs[p].kind = "md"}

\* the attachments saved while message m was exported, in order
SavedFor(m) ==
    LET OfMessage(e) == e.kind = "attachment" /\ e.msg = m
    IN  SelectSeq(saved, OfMessage)

\* the path a relative link written in directory start leads to
Resolve(start, rel) == SubSeq(start, 1, Len(start) - rel.up) \o rel.down

\* C25: in a markdown export, the attachments section lists exactly the
\* attachments saved by this export, and each entry refers to the path at
\* which that attachment was actually saved.
C25_SectionListsSavedAttachmentsAtTheirPaths ==
    \A p \in MarkdownFiles :
        /\ Len(fs[p].attachments) = Len(SavedFor(fs[p].id))
        /\ \A i \in 1..Len(fs[p].attachments) :
            /\ fs[p].attachments[i].linked
            /\ Resolve(Parent(p), fs[p].attachments[i].rel) = SavedFor(fs[p].id)[i].path

\* the attachment files named <name>.tmp that no save reported
LeftoverTempFiles ==
    {p \in DOMAIN fs : /\ fs[p].kind = "att"
                       /\ Suffix(Name(p)) = DotTmp
                       /\ \A i \in 1..Len(saved) : saved[i].path # p}

\* C29: after the processing of any attachment ends, whether it succeeded or
\* failed at any step, no temporary <name>.tmp file written for that
\* attachment remains under the output directory.
C29_NoTempFileRemains == LeftoverTempFiles = {}

(***************************************************************************)
(* Claims about the path utilities (SpecPath)                              *)
(***************************************************************************)
Sanitized == p_call.op = "sanitize_for_filesystem"

ForbiddenChars == {"\\", "/", ":", "*", "?", "\"", "<", ">", "|"}
WhitespaceChars == {" ", "\t"}

\* C11 as stated: for all strings s and all bounds n, the length of
\* sanitize_for_filesystem(s, n) is at most n.
C11_LengthAtMostBound ==
    Sanitized => Len(p_result) <= p_call.max_length

\* C11 amended: for all strings s and all bounds n >= 1, the length of
\* sanitize_for_filesystem(s, n) is at most n (for n = 0 the result is the
\* one-character placeholder "_").
C11_LengthAtMostPositiveBound ==
    (Sanitized /\ p_call.max_length >= 1) => Len(p_result) <= p_call.max_length

\* a string longer than the bound was cut down to exactly the bound
C11_Witness ==
    /\ Sanitized /\ p_call.max_length >= 1
    /\ Len(p_call.value) > p_call.max_length
    /\ Len(p_result) = p_call.max_length
    /\ p_result = SubSeq(p_call.value, 1, p_call.max_length)

\* C12: sanitize_for_filesystem(s, n) is a non-empty string that contains
\* none of the characters \ / : * ? " < > |, and an empty or
\* whitespace-only input yields exactly "_".
C12_NonEmptyWithoutForbiddenChars ==
    Sanitized =>
        /\ p_result # <<>>
        /\ \A i \in 1..Len(p_result) : p_result[i] \notin ForbiddenChars
        /\ (\A i \in 1..Len(p_call.value) : p_call.value[i] \in WhitespaceChars)
               => p_result = <<"_">>

\* a forbidden character inside the input was replaced and the rest kept
C12_Witness ==
    /\ Sanitized
    /\ Len(p_call.value) = 3 /\ p_call.value[2] \in ForbiddenChars
    /\ p_result = <<p_call.value[1], "_", p_call.value[3]>>
    /\ p_call.value[1] = "a" /\ p_call.value[3] = "a"

C28_SanitizingIsIdempotent ==
    (Sanitized /\ p_call.max_length >= 1) =>
        sanitize_for_filesystem(p_result, p_call.max_length) = p_result

CreatedFolder == p_call.op = "create_email_folder_path"

\* the path string of base_dir / parts is at most 200 characters long
Fits(parts) == StrLenIn(p_call.base_len, parts) <= 200

CandidateSender == sanitize_for_filesystem(p_call.sender_email, 120)
Candidate1 ==
    <<CandidateSender, sanitize_for_filesystem(p_call.subject, p_call.subject_max_length),
      p_call.date_str>>
Candidate2 ==
    <<CandidateSender, sanitize_for_filesystem(p_call.subject, 50), p_call.date_str>>
Candidate3 ==
    <<CandidateSender, <<"s", "u", "b", "j", "_">> \o Md5Hex8(p_call.subject),
      p_call.date_str>>
CandidateFlat ==
    <<sanitize_for_filesystem(CandidateSender \o <<"_">> \o p_call.date_str, 100)>>

\* C14: create_email_folder_path returns the first of the candidates
\* sender/subject/date, sender/subject[:50]/date, sender/subj_<hash>/date
\* whose path string is at most 200 characters, and the flat
\* sanitize(sender_date, 100) when none of the three fits; a later candidate
\* is never returned when an earlier one fits.
C14_FirstFittingCandidate ==
    CreatedFolder =>
        p_result = IF Fits(Candidate1) THEN Candidate1
                   ELSE IF Fits(Candidate2) THEN Candidate2
                   ELSE IF Fits(Candidate3) THEN Candidate3
                   ELSE CandidateFlat

\* the 50-character subject was returned because the full one did not fit
C14_Witness ==
    /\ CreatedFolder
    /\ ~Fits(Candidate1) /\ Fits(Candidate2)
    /\ p_result = Candidate2 /\ Candidate2 # Candidate1

\* C15 as stated: whenever the returned path keeps the sender/subject/date
\* hierarchy, its subject segment has at most subject_max_length characters,
\* for every base directory, sender, subject and subject_max_length.
C15_SubjectSegmentAtMostMaxLength ==
    (CreatedFolder /\ Len(p_result) = 3)
        => Len(p_result[2]) <= p_call.subject_max_length

\* C15 amended: the same for every subject_max_length >= 1 (for
\* subject_max_length = 0 the segment is the one-character placeholder "_").
C15_SubjectSegmentAtMostPositiveMaxLength ==
    (CreatedFolder /\ Len(p_result) = 3 /\ p_call.subject_max_length >= 1)
        => Len(p_result[2]) <= p_call.subject_max_length

\* a subject longer than subject_max_length was cut down to it
C15_Witness ==
    /\ CreatedFolder /\ Len(p_result) = 3
    /\ p_call.subject_max_length >= 1
    /\ Len(p_call.subject) > p_call.subject_max_length
    /\ Len(p_result[2]) = p_call.subject_max_length

EnsuredUnique == p_call.op = "ensure_unique_path"

\* path with _k inserted before the extension
WithCounter(path, k) ==
    SubSeq(path, 1, Len(path) - 1)
        \o <<Stem(path[Len(path)]) \o <<"_">> \o IntToStr(k) \o Suffix(path[Len(path)])>>

\* C16: ensure_unique_path(p) returns p when p does not exist, otherwise p
\* with _k before the extension for the least k >= 1 that does not exist;
\* it creates nothing, and a second call without an intervening creation
\* returns the same path.
C16_LeastFreeNumberedPath ==
    EnsuredUnique =>
        /\ p_call.path \notin p_call.before => p_result = p_call.path
        /\ p_call.path \in p_call.before =>
               \E k \in 1..(MaxSiblings + 1) :
                   /\ p_result = WithCounter(p_call.path, k)
                   /\ p_result \notin p_call.before
                   /\ \A j \in 1..(k - 1) : WithCounter(p_call.path, j) \in p_call.before
        /\ p_call.after = p_call.before
        /\ p_call.repeated => p_result = p_call.previous

\* f.e, f_1.e and f_2.e exist and two calls in a row returned f_3.e
C16_Witness ==
    /\ EnsuredUnique /\ p_call.repeated
    /\ p_call.path = <<FileE>>
    /\ {<<FileE>>, WithCounter(<<FileE>>, 1), WithCounter(<<FileE>>, 2)} \subseteq p_call.before
    /\ p_result = <<<<"f", "_", "3", ".", "e">>>>

\* C27: in the attachment export a filename collision is resolved the same
\* way in both branches: the final name is the original name if free, else
\* stem_k.ext for the least k >= 1 that does not exist in the destination
\* folder, for any number of earlier collisions.
C27_BothBranchesTakeLeastFreeName ==
    p_call.op = "resolve_collision" =>
        /\ p_call.path \notin p_call.before => p_result = p_call.path
        /\ p_call.path \in p_call.before =>
               \E k \in 1..(MaxSiblings + 1) :
                   /\ p_result = WithCounter(p_call.path, k)
                   /\ p_result \notin p_call.before
                   /\ \A j \in 1..(k - 1) : WithCounter(p_call.path, j) \in p_call.before

\* C17: a failure while handling one item (one attachment's save, hash
\* computation, rename or directory creation failing) never aborts the run:
\* process_messages is never left by an exception.
C17_ItemFailureNeverAbortsTheRun ==
    status # "failed"

ConflictingSwitches ==
    \/ cli_args.with_attachments /\ cli_args.without_attachments
    \/ cli_args.export_mail /\ cli_args.export_markdown

C20_DryRunWritesNothing ==
    cli_args.dry_run => (DOMAIN fs = {} /\ dirs = {})

(***************************************************************************)
(* Claims about the package's exporters (SpecExporter)                     *)
(***************************************************************************)
FailedItems == {i \in 1..Len(px_log) : px_log[i].kind # "strategy" /\ px_log[i].failed}

FileExports ==
    {i \in 1..Len(px_log) : px_log[i].kind \in {"message", "markdown"}}

\* the runs of an export strategy on an accepted email
Strategies == {i \in 1..Len(px_log) : px_log[i].kind = "strategy"}

C26_FolderOnceThenTrackerPerAttachment ==
    ~px_config.dry_run =>
        \A i \in Strategies :
            /\ px_log[i].folders = 1
            /\ px_log[i].registered = px_log[i].saved

(***************************************************************************)
(* Claims about the batched enumeration (SpecIter, SpecIterLive)           *)
(***************************************************************************)
\* C21: when a maximum message count L >= 1 is given, the enumeration yields
\* at most L messages, for every folder size and every batch size.
C21_YieldsAtMostLimit ==
    (it_limit # None /\ it_limit >= 1) => Len(it_yielded) <= it_limit

\* C22: the enumeration terminates for every folder size, batch size and
\* limit.
C22_EnumerationTerminates == <>(it_pc = "done")

\* the indices 1..n in increasing order
Upto(n) == [k \in 1..n |-> k]

NotFailing(k) == k \notin it_failing

\* C23: without a limit, the enumeration attempts each index 1..total exactly
\* once in increasing order, yields the messages in that order, and a failed
\* access is skipped without preventing a later index from being yielded.
C23_EveryIndexAttemptedOnceInOrder ==
    ~LimitSet(it_limit) =>
        /\ [](/\ it_attempted = Upto(Len(it_attempted))
              /\ it_yielded = SelectSeq(it_attempted, NotFailing))
        /\ <>(it_attempted = Upto(it_total))

(***************************************************************************)
(* Claims about a run started from the TUI (SpecTui)                       *)
(***************************************************************************)
\* C30: every option that run_export and process_messages read is defined in
\* the namespace built by get_args, for every combination of TUI inputs, so
\* a run started from the TUI never fails on a missing option.
C30_TuiNamespaceDefinesEveryOptionRead == tui_missing = ""


====
